---- MODULE Spec2Model ----
(***************************************************************************)
(* Model of the wave-profile calculator of the tsunami simulator           *)
(* (src/src/models/wave_physics.py): the TsunamiWaveModel instance, its    *)
(* calculate_wave_profile pipeline and calculate_tsunami_risk.             *)
(*                                                                         *)
(* Numbers.  A Python/numpy float64 is modelled as a record: either a      *)
(* finite fixed-point value [k |-> "fin", v |-> n] standing for n / Scale, *)
(* or one of the IEEE specials NaN, +Inf, -Inf.  Every arithmetic step     *)
(* rounds its exact result downwards to a multiple of 1/Scale, the way a   *)
(* float64 operation rounds to a multiple of its ulp.  The model does not  *)
(* distinguish -0.0 from +0.0 (they compare equal in the code as well).    *)
(* A Python-level division (both operands Python floats) raises            *)
(* ZeroDivisionError on a zero divisor; a numpy-level division (an         *)
(* operand is a numpy scalar or array) returns Inf or NaN instead.         *)
(***************************************************************************)
EXTENDS Integers, Sequences, FiniteSets, TLC

\* Fixed-point resolution of the float model: Scale units per 1.0.
Scale == 10000

-----------------------------------------------------------------------------
(* float64 values *)

Fin(n) == [k |-> "fin", v |-> n]
NaN == [k |-> "nan", v |-> 0]
PosInf == [k |-> "inf", v |-> 1]
NegInf == [k |-> "inf", v |-> -1]

IsFin(a) == a.k = "fin"
IsNaN(a) == a.k = "nan"
IsInf(a) == a.k = "inf"

Sgn(n) == IF n > 0 THEN 1 ELSE IF n < 0 THEN -1 ELSE 0
AbsInt(n) == IF n < 0 THEN -n ELSE n
InfOfSign(s) == IF s > 0 THEN PosInf ELSE NegInf

\* Python int -> float
FromInt(i) == Fin(i * Scale)

\* floor(a * b / Scale) on integers, split so that no partial product
\* leaves the 32-bit range.
MulFx(a, b) ==
    LET qa == a \div Scale
        ra == a % Scale
        qb == b \div Scale
        rb == b % Scale
    IN  qa * qb * Scale + qa * rb + ra * qb + (ra * rb) \div Scale

\* floor(a * Scale / b) on integers for b > 0, by long division in base 100.
DivPos(a, b) ==
    LET q0 == a \div b
        r0 == a % b
        q1 == (r0 * 100) \div b
        r1 == (r0 * 100) % b
        q2 == (r1 * 100) \div b
    IN  q0 * Scale + q1 * 100 + q2

DivFx(a, b) == IF b > 0 THEN DivPos(a, b) ELSE DivPos(-a, -b)

\* a + b
FAdd(a, b) ==
    IF IsNaN(a) \/ IsNaN(b) THEN NaN
    ELSE IF IsInf(a) /\ IsInf(b) THEN (IF a.v = b.v THEN a ELSE NaN)
    ELSE IF IsInf(a) THEN a
    ELSE IF IsInf(b) THEN b
    ELSE Fin(a.v + b.v)

\* -a
FNeg(a) == IF IsNaN(a) THEN NaN ELSE [k |-> a.k, v |-> -a.v]

\* a - b
FSub(a, b) == FAdd(a, FNeg(b))

\* a * b
FMul(a, b) ==
    IF IsNaN(a) \/ IsNaN(b) THEN NaN
    ELSE IF IsInf(a) \/ IsInf(b)
         THEN (IF a.v = 0 \/ b.v = 0 THEN NaN ELSE InfOfSign(Sgn(a.v) * Sgn(b.v)))
    ELSE Fin(MulFx(a.v, b.v))

\* a / b where an operand is a numpy value: no exception, IEEE results.
NpDiv(a, b) ==
    IF IsNaN(a) \/ IsNaN(b) THEN NaN
    ELSE IF IsInf(a) THEN (IF IsInf(b) THEN NaN
                           ELSE InfOfSign(a.v * (IF b.v < 0 THEN -1 ELSE 1)))
    ELSE IF IsInf(b) THEN Fin(0)
    ELSE IF b.v = 0 THEN (IF a.v = 0 THEN NaN ELSE InfOfSign(Sgn(a.v)))
    ELSE Fin(DivFx(a.v, b.v))

\* a / b between two Python floats raises ZeroDivisionError when b == 0.
PyDivRaises(a, b) == IsFin(b) /\ b.v = 0

\* a / b between two Python floats, for a divisor that is not zero.
PyDiv(a, b) == NpDiv(a, b)

\* IEEE comparisons: every comparison with NaN is False.
FLt(a, b) ==
    /\ ~IsNaN(a) /\ ~IsNaN(b)
    /\ IF IsInf(a) THEN a.v < 0 /\ b # a
       ELSE IF IsInf(b) THEN b.v > 0
       ELSE a.v < b.v
FEq(a, b) == ~IsNaN(a) /\ ~IsNaN(b) /\ a = b
FLe(a, b) == FLt(a, b) \/ FEq(a, b)
FGe(a, b) == FLe(b, a)

\* abs(a)
FAbs(a) == IF IsNaN(a) THEN NaN ELSE [k |-> a.k, v |-> AbsInt(a.v)]

-----------------------------------------------------------------------------
(* numpy's elementary functions, in fixed point *)

\* np.pi
PiFx == 31416
TwoPiFx == 2 * PiFx
HalfPiFx == PiFx \div 2

\* cos on [0, pi/2] (units), Taylor series to x^10 in Horner form.
CosCore(x) ==
    LET x2 == MulFx(x, x)
        h5 == Scale - x2 \div 90
        h4 == Scale - MulFx(x2, h5) \div 56
        h3 == Scale - MulFx(x2, h4) \div 30
        h2 == Scale - MulFx(x2, h3) \div 12
    IN  Scale - MulFx(x2, h2) \div 2

\* cos of a finite angle (units): reduce modulo 2*pi, fold onto [0, pi/2].
CosFx(a) ==
    LET r == a % TwoPiFx
        f == IF r > PiFx THEN TwoPiFx - r ELSE r
    IN  IF f > HalfPiFx THEN -CosCore(PiFx - f) ELSE CosCore(f)

\* np.cos
FCos(a) == IF IsFin(a) THEN Fin(CosFx(a.v)) ELSE NaN

\* np.sin, as cos(a - pi/2)
FSin(a) == IF IsFin(a) THEN Fin(CosFx(a.v - HalfPiFx)) ELSE NaN

\* exp on [-1, 1] (units), Taylor series to x^8 in Horner form.
ExpCore(x) ==
    LET h8 == Scale + x \div 8
        h7 == Scale + MulFx(x, h8) \div 7
        h6 == Scale + MulFx(x, h7) \div 6
        h5 == Scale + MulFx(x, h6) \div 5
        h4 == Scale + MulFx(x, h5) \div 4
        h3 == Scale + MulFx(x, h4) \div 3
        h2 == Scale + MulFx(x, h3) \div 2
    IN  Scale + MulFx(x, h2)

\* exp of a finite argument (units): halve the argument until it is in
\* [-1, 1], then square back.
RECURSIVE ExpFx(_)
ExpFx(x) ==
    IF x >= -Scale /\ x <= Scale THEN ExpCore(x)
    ELSE LET h == ExpFx(x \div 2) IN MulFx(h, h)

\* Largest argument whose exponential the finite range of the model holds
\* (float64 overflows to Inf at about 709.78).
ExpMaxFx == 12 * Scale

\* np.exp
FExp(a) ==
    IF IsNaN(a) THEN NaN
    ELSE IF IsInf(a) THEN (IF a.v > 0 THEN PosInf ELSE Fin(0))
    ELSE IF a.v > ExpMaxFx THEN PosInf
    ELSE IF a.v < -ExpMaxFx THEN Fin(0)
    ELSE Fin(ExpFx(a.v))

\* tanh of an argument >= 0 (units): (1 - e^(-2x)) / (1 + e^(-2x)).
TanhPos(x) ==
    IF 2 * x > ExpMaxFx THEN Scale
    ELSE LET e == ExpFx(-2 * x) IN DivFx(Scale - e, Scale + e)

\* np.tanh
FTanh(a) ==
    IF IsNaN(a) THEN NaN
    ELSE IF IsInf(a) THEN Fin(a.v * Scale)
    ELSE IF a.v >= 0 THEN Fin(TanhPos(a.v))
    ELSE Fin(-TanhPos(-a.v))

\* np.sinh: (e^x - e^(-x)) / 2
FSinh(a) ==
    IF ~IsFin(a) THEN a
    ELSE LET p == FExp(FAbs(a))
             n == FExp(FNeg(FAbs(a)))
             s == IF IsInf(p) THEN PosInf ELSE Fin((p.v - n.v) \div 2)
         IN  IF a.v >= 0 THEN s ELSE FNeg(s)

\* floor(sqrt(n)) on a natural number.
RECURSIVE IsqrtSearch(_, _, _)
IsqrtSearch(n, lo, hi) ==
    IF lo >= hi THEN lo
    ELSE LET mid == (lo + hi + 1) \div 2
         IN  IF mid * mid <= n THEN IsqrtSearch(n, mid, hi)
             ELSE IsqrtSearch(n, lo, mid - 1)
Isqrt(n) == IsqrtSearch(n, 0, IF n < 46340 THEN n ELSE 46340)

\* r * r <= n * Scale, compared without forming either product.
SqLeScaled(r, n) ==
    LET hi == MulFx(r, r)
        lo == ((r % Scale) * (r % Scale)) % Scale
    IN  hi < n \/ (hi = n /\ lo = 0)

\* floor(sqrt(n * Scale)): the root of n / Scale in units.
RECURSIVE SqrtSearch(_, _, _)
SqrtSearch(n, lo, hi) ==
    IF lo >= hi THEN lo
    ELSE LET mid == (lo + hi + 1) \div 2
         IN  IF SqLeScaled(mid, n) THEN SqrtSearch(n, mid, hi)
             ELSE SqrtSearch(n, lo, mid - 1)
SqrtFx(n) == LET r == Isqrt(n) IN SqrtSearch(n, r * 100, r * 100 + 99)

\* np.sqrt: NaN for a negative argument (a RuntimeWarning, not an exception).
FSqrt(a) ==
    IF IsNaN(a) THEN NaN
    ELSE IF IsInf(a) THEN (IF a.v > 0 THEN PosInf ELSE NaN)
    ELSE IF a.v < 0 THEN NaN
    ELSE Fin(SqrtFx(a.v))

-----------------------------------------------------------------------------
(* numpy arrays: sequences of floats *)

\* Python float literals used by the code.
Half == Fin(Scale \div 2)
One == Fin(Scale)
Two == Fin(2 * Scale)
Three == Fin(3 * Scale)
Zero == Fin(0)
PiF == Fin(PiFx)

\* np.ndarray: a function on 1..n stored as the sequence of its elements
\* (numpy evaluates every array operation eagerly, element by element).
NdArray(f) == SubSeq(f, 1, Len(f))

\* array * scalar, array + array (elementwise)
ArrScale(a, c) == NdArray([i \in DOMAIN a |-> FMul(a[i], c)])
ArrAdd(a, b) == NdArray([i \in DOMAIN a |-> FAdd(a[i], b[i])])

\* eta**2, np.abs(eta)
ArrSquare(a) == NdArray([i \in DOMAIN a |-> FMul(a[i], a[i])])
ArrAbs(a) == NdArray([i \in DOMAIN a |-> FAbs(a[i])])

\* np.sum
RECURSIVE ArrSumTo(_, _)
ArrSumTo(a, n) == IF n = 0 THEN Zero ELSE FAdd(ArrSumTo(a, n - 1), a[n])

\* np.mean(a): sum / len; NaN for an empty array (0.0 / 0).
ArrMean(a) == NpDiv(ArrSumTo(a, Len(a)), FromInt(Len(a)))

\* np.mean(eta**2)
MeanSquare(eta) == ArrMean(ArrSquare(eta))

\* np.maximum.reduce: a NaN element makes the maximum NaN.
RECURSIVE ArrMaxTo(_, _)
ArrMaxTo(a, n) ==
    IF n = 1 THEN a[1]
    ELSE LET m == ArrMaxTo(a, n - 1)
         IN  IF IsNaN(m) \/ IsNaN(a[n]) THEN NaN
             ELSE IF FLt(m, a[n]) THEN a[n] ELSE m

\* np.max(np.abs(eta)), for a non-empty array
MaxAbs(eta) == ArrMaxTo(ArrAbs(eta), Len(eta))

\* np.linspace(0, stop, num): num samples from 0 to stop, both included;
\* step = stop / (num - 1), the last sample set to stop itself.
Linspace(stop, num) ==
    LET step == NpDiv(stop, FromInt(num - 1))
    IN  NdArray([i \in 1..num |->
            IF num > 1 /\ i = num THEN stop ELSE FMul(FromInt(i - 1), step)])

\* np.fft.fftfreq(n, d): the bins 0, 1, ..., (n-1)//2, -(n//2), ..., -1,
\* each times val = 1.0 / (n * d).
FftFreq(n, d) ==
    LET val == NpDiv(One, FMul(FromInt(n), d))
        bin(i) == IF i - 1 <= (n - 1) \div 2 THEN i - 1 ELSE i - 1 - n
    IN  NdArray([i \in 1..n |-> FMul(FromInt(bin(i)), val)])

\* np.abs(np.fft.fft(eta))**2: the power of each bin of the discrete
\* Fourier transform, X[j] = sum_m eta[m] * exp(-2 pi i j m / n).
RECURSIVE DftRe(_, _, _)
DftRe(eta, j, m) ==
    IF m = 0 THEN Zero
    ELSE FAdd(DftRe(eta, j, m - 1),
              FMul(eta[m], Fin(CosFx((TwoPiFx * ((j * (m - 1)) % Len(eta))) \div Len(eta)))))
RECURSIVE DftIm(_, _, _)
DftIm(eta, j, m) ==
    IF m = 0 THEN Zero
    ELSE FSub(DftIm(eta, j, m - 1),
              FMul(eta[m], Fin(CosFx((TwoPiFx * ((j * (m - 1)) % Len(eta))) \div Len(eta) - HalfPiFx))))
FftPower(eta) ==
    NdArray([j \in 1..Len(eta) |->
        LET re == DftRe(eta, j - 1, Len(eta))
            im == DftIm(eta, j - 1, Len(eta))
        IN  FAdd(FMul(re, re), FMul(im, im))])

-----------------------------------------------------------------------------
(* class TsunamiWaveModel *)

\* The five effect names calculate_wave_profile looks up.
EffectNames == {"nonlinear", "dispersion", "bottom_friction", "coriolis", "wind"}

\* WaveParameters(amplitude, wavelength, depth, ...): the dataclass, with
\* its field defaults.
DefaultBottomFriction == Fin(10)
DefaultCoriolisParam == Fin(1)
WaveParameters(amplitude, wavelength, depth) ==
    [amplitude |-> amplitude, wavelength |-> wavelength, depth |-> depth,
     bottom_friction |-> DefaultBottomFriction,
     coriolis_param |-> DefaultCoriolisParam,
     wind_speed |-> Zero, wind_direction |-> Zero]

\* TsunamiWaveModel.__init__(domain_size, nx), for nx # 0.
Gravity == Fin(98100)
SeaDensity == Fin(1025 * Scale)
NewDx(domain_size, nx) == PyDiv(domain_size, FromInt(nx))
NewGrid(domain_size, nx) == Linspace(domain_size, nx)
TsunamiWaveModel(domain_size, nx) ==
    [domain_size |-> domain_size,
     nx |-> nx,
     dx |-> NewDx(domain_size, nx),
     x |-> NewGrid(domain_size, nx),
     g |-> Gravity,
     rho |-> SeaDensity,
     earth_radius |-> 6371000]

\* Mutant of DictGetDefault: a missing key counts as enabled.
DictGetDefaultTrue == TRUE

\* include_effects.get(key, False)
DictGetDefault == FALSE
DictGet(include_effects, key) ==
    IF key \in DOMAIN include_effects THEN include_effects[key]
    ELSE DictGetDefault

\* k = 2 * np.pi / params.wavelength (a division of two Python floats)
WaveNumber(params) == PyDiv(FMul(Two, PiF), params.wavelength)

\* omega = np.sqrt(self.g * k * np.tanh(k * params.depth))
AngularFrequency(self, params) ==
    LET k == WaveNumber(params)
    IN  FSqrt(FMul(FMul(self.g, k), FTanh(FMul(k, params.depth))))

\* k * self.x - omega * t
Phase(self, k, omega, t) ==
    NdArray([i \in DOMAIN self.x |-> FSub(FMul(k, self.x[i]), FMul(omega, t))])

\* eta = params.amplitude * np.cos(k * self.x - omega * t)
BaseProfile(self, params, k, omega, t) ==
    LET ph == Phase(self, k, omega, t)
    IN  NdArray([i \in DOMAIN self.x |-> FMul(params.amplitude, FCos(ph[i]))])

ThreeEighths == NpDiv(Three, Fin(8 * Scale))

\* Mutant of add_nonlinear_effects: the second order term without its
\* amplitude**2 factor.
add_nonlinear_effects_unscaled(self, eta, k, omega, t, params) ==
    LET ph == Phase(self, k, omega, t)
        a2 == FMul(params.amplitude, params.amplitude)
        a3 == FMul(a2, params.amplitude)
        c2 == FMul(Half, k)
        c3 == FMul(FMul(ThreeEighths, FMul(k, k)), a3)
    IN  NdArray([i \in DOMAIN eta |->
            FAdd(FAdd(eta[i], FMul(c2, FCos(FMul(Two, ph[i])))),
                 FMul(c3, FCos(FMul(Three, ph[i]))))])

\* _add_nonlinear_effects: eta + eta2 + eta3 with the second and third
\* order Stokes terms, both on the phase of the base wave.
add_nonlinear_effects(self, eta, k, omega, t, params) ==
    LET ph == Phase(self, k, omega, t)
        a2 == FMul(params.amplitude, params.amplitude)
        a3 == FMul(a2, params.amplitude)
        c2 == FMul(FMul(Half, k), a2)
        c3 == FMul(FMul(ThreeEighths, FMul(k, k)), a3)
    IN  NdArray([i \in DOMAIN eta |->
            FAdd(FAdd(eta[i], FMul(c2, FCos(FMul(Two, ph[i])))),
                 FMul(c3, FCos(FMul(Three, ph[i]))))])

\* _add_dispersion_effects: eta * sqrt(tanh(beta) / beta), beta = k * depth
DispersionFactor(k, depth) ==
    LET beta == FMul(k, depth) IN FSqrt(NpDiv(FTanh(beta), beta))
add_dispersion_effects(self, eta, k, depth) ==
    ArrScale(eta, DispersionFactor(k, depth))

\* _add_bottom_friction: eta * exp(-friction * t)
add_bottom_friction(self, eta, friction, t) ==
    ArrScale(eta, FExp(FMul(FNeg(friction), t)))

\* _add_coriolis_effect: eta * cos(f * t)
add_coriolis_effect(self, eta, f, t) ==
    ArrScale(eta, FCos(FMul(f, t)))

\* _add_wind_effect: eta + wind_factor * cos(wind_direction)
\*                          * sin(2 * pi * x / domain_size)
WindCoefficient == Fin(15)

\* Mutant of WindComponent: wind_factor = 0.0015 + wind_speed.
WindComponentOffset(self, wind_speed, wind_direction) ==
    LET wind_factor == FAdd(WindCoefficient, wind_speed)
        c == FMul(wind_factor, FCos(wind_direction))
    IN  NdArray([i \in DOMAIN self.x |->
            FMul(c, FSin(NpDiv(FMul(FMul(Two, PiF), self.x[i]), self.domain_size)))])

WindComponent(self, wind_speed, wind_direction) ==
    LET wind_factor == FMul(WindCoefficient, wind_speed)
        c == FMul(wind_factor, FCos(wind_direction))
    IN  NdArray([i \in DOMAIN self.x |->
            FMul(c, FSin(NpDiv(FMul(FMul(Two, PiF), self.x[i]), self.domain_size)))])
add_wind_effect(self, eta, wind_speed, wind_direction) ==
    ArrAdd(eta, WindComponent(self, wind_speed, wind_direction))

\* E = 0.5 * self.rho * self.g * np.mean(eta**2)
WaveEnergy(self, eta) ==
    FMul(FMul(FMul(Half, self.rho), self.g), MeanSquare(eta))

\* Mutant of MomentumFlux: the division by 2 left out.
MomentumFluxUnhalved(self, eta) ==
    FMul(FMul(self.rho, self.g), MeanSquare(eta))

\* momentum_flux = self.rho * self.g * np.mean(eta**2) / 2
MomentumFlux(self, eta) ==
    NpDiv(FMul(FMul(self.rho, self.g), MeanSquare(eta)), Two)

\* c_group = 0.5 * omega / k * (1 + 2*k*depth / np.sinh(2*k*depth))
GroupVelocity(k, omega, depth) ==
    LET kd2 == FMul(FMul(Two, k), depth)
    IN  FMul(NpDiv(FMul(Half, omega), k), FAdd(One, NpDiv(kd2, FSinh(kd2))))

\* The Python-level divisions of _analyze_wave that raise ZeroDivisionError:
\* 1.0 / (n * d) inside np.fft.fftfreq, and 2*np.pi/k for 'mean_wavelength'.
analyze_wave_raises(self, eta, k) ==
    \/ PyDivRaises(One, FMul(FromInt(Len(eta)), self.dx))
    \/ PyDivRaises(FMul(Two, PiF), k)

\* _analyze_wave: the analysis dict
analyze_wave(self, eta, k, omega, params) ==
    [energy |-> WaveEnergy(self, eta),
     energy_spectrum |-> <<FftFreq(Len(eta), self.dx), FftPower(eta)>>,
     momentum_flux |-> MomentumFlux(self, eta),
     phase_velocity |-> NpDiv(omega, k),
     group_velocity |-> GroupVelocity(k, omega, params.depth),
     max_amplitude |-> MaxAbs(eta),
     rms_amplitude |-> FSqrt(MeanSquare(eta)),
     mean_wavelength |-> PyDiv(FMul(Two, PiF), k),
     period |-> NpDiv(FMul(Two, PiF), omega)]

\* The corrections of calculate_wave_profile, each applied to the running
\* profile when its toggle is on, in the order of the if statements.
AfterNonlinear(self, eta, k, omega, t, params, include_effects) ==
    IF DictGet(include_effects, "nonlinear")
    THEN add_nonlinear_effects(self, eta, k, omega, t, params) ELSE eta
AfterDispersion(self, eta, k, params, include_effects) ==
    IF DictGet(include_effects, "dispersion")
    THEN add_dispersion_effects(self, eta, k, params.depth) ELSE eta
AfterFriction(self, eta, t, params, include_effects) ==
    IF DictGet(include_effects, "bottom_friction")
    THEN add_bottom_friction(self, eta, params.bottom_friction, t) ELSE eta
AfterCoriolis(self, eta, t, params, include_effects) ==
    IF DictGet(include_effects, "coriolis")
    THEN add_coriolis_effect(self, eta, params.coriolis_param, t) ELSE eta
AfterWind(self, eta, params, include_effects) ==
    IF DictGet(include_effects, "wind")
    THEN add_wind_effect(self, eta, params.wind_speed, params.wind_direction)
    ELSE eta

\* Mutant of WaveProfile: the wind term added before the three scalings.
WaveProfileWindEarly(self, params, t, include_effects) ==
    LET k == WaveNumber(params)
        omega == AngularFrequency(self, params)
        eta0 == BaseProfile(self, params, k, omega, t)
        eta1 == AfterNonlinear(self, eta0, k, omega, t, params, include_effects)
        eta2 == AfterWind(self, eta1, params, include_effects)
        eta3 == AfterDispersion(self, eta2, k, params, include_effects)
        eta4 == AfterFriction(self, eta3, t, params, include_effects)
    IN  AfterCoriolis(self, eta4, t, params, include_effects)

\* The profile calculate_wave_profile returns (params.wavelength # 0).
WaveProfile(self, params, t, include_effects) ==
    LET k == WaveNumber(params)
        omega == AngularFrequency(self, params)
        eta0 == BaseProfile(self, params, k, omega, t)
        eta1 == AfterNonlinear(self, eta0, k, omega, t, params, include_effects)
        eta2 == AfterDispersion(self, eta1, k, params, include_effects)
        eta3 == AfterFriction(self, eta2, t, params, include_effects)
        eta4 == AfterCoriolis(self, eta3, t, params, include_effects)
    IN  AfterWind(self, eta4, params, include_effects)

\* An exception leaving a call, and a normal return.
Raise(exc) == [kind |-> "raise", exc |-> exc]
ZeroDivisionError == Raise("ZeroDivisionError")

\* calculate_wave_profile(params, t, include_effects): (eta, analysis), or
\* the exception raised on the way.
calculate_wave_profile(self, params, t, include_effects) ==
    IF PyDivRaises(FMul(Two, PiF), params.wavelength) THEN ZeroDivisionError
    ELSE LET k == WaveNumber(params)
             omega == AngularFrequency(self, params)
             eta == WaveProfile(self, params, t, include_effects)
         IN  IF analyze_wave_raises(self, eta, k) THEN ZeroDivisionError
             ELSE [kind |-> "return", eta |-> eta,
                   analysis |-> analyze_wave(self, eta, k, omega, params)]

\* _estimate_damage(height, energy): the ladder 1.0 / 3.0 / 6.0 on height
DamageLight == "Thiet hai nhe den cac cong trinh ven bien"
DamageSignificant == "Thiet hai dang ke den cac cong trinh ven bien, ngap lut vung thap"
DamageSevere == "Thiet hai nghiem trong den cong trinh, ngap lut sau trong dat lien"
DamageTotal == "Thiet hai toan dien den co so ha tang ven bien"
DamageStep1 == Fin(1 * Scale)
DamageStep2 == Fin(3 * Scale)
DamageStep3 == Fin(6 * Scale)
\* Mutant of estimate_damage: the damage bands on the steps of the risk
\* ladder (0.5 / 2.0 / 5.0).
estimate_damage_unified(height, energy) ==
    IF FLt(height, Half) THEN DamageLight
    ELSE IF FLt(height, Two) THEN DamageSignificant
    ELSE IF FLt(height, Fin(5 * Scale)) THEN DamageSevere
    ELSE DamageTotal

estimate_damage(height, energy) ==
    IF FLt(height, DamageStep1) THEN DamageLight
    ELSE IF FLt(height, DamageStep2) THEN DamageSignificant
    ELSE IF FLt(height, DamageStep3) THEN DamageSevere
    ELSE DamageTotal

\* The risk ladder 0.5 / 2.0 / 5.0 of calculate_tsunami_risk
RiskLow == "Thap"
RiskModerate == "Trung binh"
RiskHigh == "Cao"
RiskVeryHigh == "Rat cao"
RiskStep1 == Fin(Scale \div 2)
RiskStep2 == Fin(2 * Scale)
RiskStep3 == Fin(5 * Scale)
\* Mutant of RiskLevel: <= in place of <, so that a height on a step falls
\* into the band below it.
RiskLevelUpperInclusive(max_height) ==
    IF FLe(max_height, RiskStep1) THEN RiskLow
    ELSE IF FLe(max_height, RiskStep2) THEN RiskModerate
    ELSE IF FLe(max_height, RiskStep3) THEN RiskHigh
    ELSE RiskVeryHigh

RiskLevel(max_height) ==
    IF FLt(max_height, RiskStep1) THEN RiskLow
    ELSE IF FLt(max_height, RiskStep2) THEN RiskModerate
    ELSE IF FLt(max_height, RiskStep3) THEN RiskHigh
    ELSE RiskVeryHigh

\* calculate_tsunami_risk(eta, params), for a non-empty eta
RiskEnergy(self, eta) ==
    FMul(FMul(FMul(Half, self.rho), self.g), MeanSquare(eta))
calculate_tsunami_risk(self, eta, params) ==
    LET max_height == MaxAbs(eta)
        energy == RiskEnergy(self, eta)
    IN  [kind |-> "return",
         risk_level |-> RiskLevel(max_height),
         max_height |-> max_height,
         energy |-> energy,
         potential_damage |-> estimate_damage(max_height, energy)]

-----------------------------------------------------------------------------
(* Bounds of the model and the inputs the calls are given *)

\* Grids have 2..MaxNx samples; call times are -1..MaxTime seconds.
MaxNx == 4
MaxTime == 1

\* domain_size values (metres) the instance is constructed with
DomainSizes == {FromInt(6), FromInt(8)}

\* The instances the model starts from
Instances == {TsunamiWaveModel(d, n) : d \in DomainSizes, n \in 2..MaxNx}

\* amplitude (m): zero and a steep wave
Amplitudes == {Zero, One}
\* wavelength (m): zero (out of domain) and one in the domain
Wavelengths == {Zero, FromInt(8)}
\* depth (m): negative, zero (both out of domain) and positive
Depths == {FromInt(-1), Zero, FromInt(2)}
\* (bottom_friction, coriolis_param, wind_speed, wind_direction): the
\* dataclass defaults; strong friction and rotation with a 10 m/s wind
\* along the axis; the same with no wind and a direction of 1 rad.
Extras ==
    {<<DefaultBottomFriction, DefaultCoriolisParam, Zero, Zero>>,
     <<Fin(Scale \div 10), Half, FromInt(10), Zero>>,
     <<Fin(Scale \div 10), Half, Zero, One>>}
ParamChoices ==
    {[amplitude |-> a, wavelength |-> w, depth |-> d,
      bottom_friction |-> e[1], coriolis_param |-> e[2],
      wind_speed |-> e[3], wind_direction |-> e[4]] :
        a \in Amplitudes, w \in Wavelengths, d \in Depths, e \in Extras}
Times == {FromInt(i) : i \in -1..MaxTime}

\* Every dict from a subset of the effect names to bool, and those that
\* hold all five keys
ToggleMaps == UNION {[S -> BOOLEAN] : S \in SUBSET EffectNames}
TotalMaps == [EffectNames -> BOOLEAN]

\* The parameters the dicts with missing keys are tried on
PartialParams ==
    {[amplitude |-> One, wavelength |-> FromInt(8), depth |-> FromInt(2),
      bottom_friction |-> Fin(Scale \div 10), coriolis_param |-> Half,
      wind_speed |-> FromInt(10), wind_direction |-> Zero]}

\* The argument lists of calculate_wave_profile: every parameter choice
\* with every total dict, and every dict at all on PartialParams.
ProfileCalls ==
    (ParamChoices \X Times \X TotalMaps) \cup (PartialParams \X Times \X ToggleMaps)

\* Profiles handed directly to calculate_tsunami_risk: two samples each,
\* with heights on, just below and between the steps of both ladders.
Heights ==
    {Zero, Fin(4999), Fin(5000), Fin(9999), Fin(10000), Fin(19999),
     Fin(20000), Fin(29999), Fin(30000), Fin(49999), Fin(50000),
     Fin(59999), Fin(60000), Fin(-20000), Fin(-60000), NaN, PosInf}
RiskProfiles == {<<a, b>> : a \in Heights, b \in Heights}

-----------------------------------------------------------------------------
(* State *)

VARIABLES
    wave_model,       \* the TsunamiWaveModel instance (self)
    params,           \* the caller's WaveParameters object, after the last call
    include_effects,  \* the caller's toggle dict, after the last call
    eta_arg,          \* the caller's array given to calculate_tsunami_risk
    passed,           \* the argument values of the last call, as passed
    profile_ret,      \* outcome of the last calculate_wave_profile call
    risk_ret,         \* outcome of the last calculate_tsunami_risk call
    first,            \* the first call made on the instance and its outcome
    app,              \* the TsunamiSimulator window (self of main.py), if any
    event             \* the callback the Tk main loop dispatched last

vars == <<wave_model, params, include_effects, eta_arg, passed,
          profile_ret, risk_ret, first, app, event>>

None == [kind |-> "none"]
NoCall == [op |-> "none"]

\* Neither method assigns an attribute of self, and neither writes into an
\* argument: every array operation (eta * decay, eta + eta2, eta**2,
\* np.abs(eta)) builds a new array and rebinds a local name.
SelfAfterCall(self) == self
ParamsAfterCall(p) == p
TogglesAfterCall(ie) == ie

\* Mutant of ArrayAfterCall: the absolute values written into the caller's
\* array, as np.abs(eta, out=eta) would.
ArrayAfterCallInPlaceAbs(eta) == ArrAbs(eta)

ArrayAfterCall(eta) == eta

\* The construction: TsunamiWaveModel(domain_size, nx); no call made yet.
Init ==
    /\ wave_model \in Instances
    /\ params = None
    /\ include_effects = <<>>
    /\ eta_arg = <<>>
    /\ passed = NoCall
    /\ profile_ret = None
    /\ risk_ret = None
    /\ first = NoCall
    /\ app = None
    /\ event = "none"

\* The record of a call: what was passed and what came back.
CallRecord(call, ret) == [op |-> call.op, call |-> call, ret |-> ret]
FirstAfter(call, ret) == IF first = NoCall THEN CallRecord(call, ret) ELSE first

\* eta, analysis = wave_model.calculate_wave_profile(p, tt, ie)
CalculateWaveProfile(p, tt, ie) ==
    LET call == [op |-> "profile", params |-> p, t |-> tt, include_effects |-> ie]
        ret == calculate_wave_profile(wave_model, p, tt, ie)
    IN  /\ passed' = call
        /\ profile_ret' = ret
        /\ wave_model' = SelfAfterCall(wave_model)
        /\ params' = ParamsAfterCall(p)
        /\ include_effects' = TogglesAfterCall(ie)
        /\ first' = FirstAfter(call, ret)
        /\ UNCHANGED <<eta_arg, risk_ret, app, event>>

\* risk = wave_model.calculate_tsunami_risk(eta, p)
CalculateTsunamiRisk(eta, p) ==
    LET call == [op |-> "risk", params |-> p, eta |-> eta]
        ret == calculate_tsunami_risk(wave_model, eta, p)
    IN  /\ passed' = call
        /\ risk_ret' = ret
        /\ wave_model' = SelfAfterCall(wave_model)
        /\ params' = ParamsAfterCall(p)
        /\ eta_arg' = ArrayAfterCall(eta)
        /\ first' = FirstAfter(call, ret)
        /\ UNCHANGED <<include_effects, profile_ret, app, event>>

\* The profile of the last evaluation, when it returned one.
Returned == profile_ret.kind = "return"
DefaultParams == WaveParameters(One, FromInt(8), FromInt(2))

\* One evaluation: a single calculate_wave_profile call on fresh arguments,
\* then the risk of the returned profile; or the risk of a given profile.
Evaluate ==
    /\ passed = NoCall
    /\ \E c \in ProfileCalls : CalculateWaveProfile(c[1], c[2], c[3])
AssessReturned ==
    /\ passed.op = "profile"
    /\ Returned
    /\ CalculateTsunamiRisk(profile_ret.eta, params)
AssessGiven ==
    /\ passed = NoCall
    /\ \E eta \in RiskProfiles : CalculateTsunamiRisk(eta, DefaultParams)

Next == Evaluate \/ AssessReturned \/ AssessGiven

Spec == Init /\ [][Next]_vars

\* A session: any number of calls on one instance, in any order, on a few
\* argument lists; the risk is asked of a given profile or of the profile
\* the last evaluation returned.
StrongParams ==
    [amplitude |-> One, wavelength |-> FromInt(8), depth |-> FromInt(2),
     bottom_friction |-> Fin(Scale \div 10), coriolis_param |-> Half,
     wind_speed |-> FromInt(10), wind_direction |-> Zero]
SessionParams == {DefaultParams, StrongParams}
SessionCalls ==
    {<<DefaultParams, Zero, <<>> >>,
     <<DefaultParams, One, [e \in EffectNames |-> TRUE]>>,
     <<StrongParams, Zero, [e \in {"wind"} |-> TRUE]>>,
     <<StrongParams, One, [e \in EffectNames |-> TRUE]>>}
SessionProfiles == {<<Half, FromInt(-2)>>}
SessionEvaluate ==
    \E c \in SessionCalls : CalculateWaveProfile(c[1], c[2], c[3])
SessionAssess ==
    \E eta \in SessionProfiles \cup (IF Returned THEN {profile_ret.eta} ELSE {}),
       p \in SessionParams :
          CalculateTsunamiRisk(eta, p)

SessionNext == SessionEvaluate \/ SessionAssess

SpecSession == Init /\ [][SessionNext]_vars

-----------------------------------------------------------------------------
(* Claims about one evaluation (specification Spec) *)

\* The state right after a calculate_wave_profile call that returned.
Profiled == passed.op = "profile" /\ Returned

\* The keys a dict enables, and the dict with every key, enabling exactly en.
EnabledIn(ie) == {e \in DOMAIN ie : ie[e]}
TotalDict(en) == [e \in EffectNames |-> e \in en]

\* The corrections as an ordered list of named transforms of the profile.
CorrectionOrder == <<"nonlinear", "dispersion", "bottom_friction", "coriolis", "wind">>
Correction(name, self, eta, p, tt) ==
    CASE name = "nonlinear" ->
            add_nonlinear_effects(self, eta, WaveNumber(p), AngularFrequency(self, p), tt, p)
      [] name = "dispersion" -> add_dispersion_effects(self, eta, WaveNumber(p), p.depth)
      [] name = "bottom_friction" -> add_bottom_friction(self, eta, p.bottom_friction, tt)
      [] name = "coriolis" -> add_coriolis_effect(self, eta, p.coriolis_param, tt)
      [] name = "wind" -> add_wind_effect(self, eta, p.wind_speed, p.wind_direction)
RECURSIVE ApplyFrom(_, _, _, _, _, _)
ApplyFrom(i, self, eta, p, tt, en) ==
    IF i > Len(CorrectionOrder) THEN eta
    ELSE ApplyFrom(i + 1, self,
                   IF CorrectionOrder[i] \in en
                   THEN Correction(CorrectionOrder[i], self, eta, p, tt) ELSE eta,
                   p, tt, en)
Reference(self, p, tt, en) ==
    ApplyFrom(1, self,
              BaseProfile(self, p, WaveNumber(p), AngularFrequency(self, p), tt),
              p, tt, en)

\* The three scalar factors, 1 for a disabled correction.
FactorOf(name, p, tt, en) ==
    IF name \notin en THEN One
    ELSE CASE name = "dispersion" -> DispersionFactor(WaveNumber(p), p.depth)
           [] name = "bottom_friction" -> FExp(FMul(FNeg(p.bottom_friction), tt))
           [] name = "coriolis" -> FCos(FMul(p.coriolis_param, tt))
Scaled(eta, p, tt, en) ==
    LET d == ArrScale(eta, FactorOf("dispersion", p, tt, en))
        f == ArrScale(d, FactorOf("bottom_friction", p, tt, en))
    IN  ArrScale(f, FactorOf("coriolis", p, tt, en))

\* C1: for every subset of the five toggles the returned profile is the
\* base profile put through exactly the enabled corrections in the order
\* nonlinear, dispersion, bottom_friction, coriolis, wind, each on the
\* output of the one before; so the profile is the base wave plus the
\* enabled nonlinear terms, scaled by the enabled dispersion, friction and
\* Coriolis factors, plus the unscaled wind term when wind is enabled.
C1_FixedOrder ==
    Profiled =>
        LET p == passed.params
            tt == passed.t
            en == EnabledIn(passed.include_effects)
            k == WaveNumber(p)
            omega == AngularFrequency(wave_model, p)
            base == BaseProfile(wave_model, p, k, omega, tt)
            stokes == IF "nonlinear" \in en
                      THEN add_nonlinear_effects(wave_model, base, k, omega, tt, p)
                      ELSE base
            scaled == Scaled(stokes, p, tt, en)
        IN  /\ profile_ret.eta = Reference(wave_model, p, tt, en)
            /\ profile_ret.eta =
                  IF "wind" \in en
                  THEN ArrAdd(scaled, WindComponent(wave_model, p.wind_speed, p.wind_direction))
                  ELSE scaled

\* All five corrections enabled on finite values, where scaling the wind
\* term as well would have given another profile.
C1_Witness ==
    /\ Profiled
    /\ EnabledIn(passed.include_effects) = EffectNames
    /\ \A i \in DOMAIN profile_ret.eta : IsFin(profile_ret.eta[i])
    /\ LET p == passed.params
           base == BaseProfile(wave_model, p, WaveNumber(p),
                               AngularFrequency(wave_model, p), passed.t)
           windFirst == add_wind_effect(wave_model, base, p.wind_speed, p.wind_direction)
       IN  profile_ret.eta #
              ApplyFrom(1, wave_model, windFirst, p, passed.t, EffectNames \ {"wind"})

\* The state right after a calculate_tsunami_risk call.
Assessed == passed.op = "risk" /\ risk_ret.kind = "return"
\* ... on a profile given by the caller (not one just returned).
AssessedGiven == Assessed /\ profile_ret = None

\* h lies in [lo, hi), h < hi, h >= lo
InBand(h, lo, hi) == FGe(h, lo) /\ FLt(h, hi)
Rank(level) ==
    CASE level = RiskLow -> 0 [] level = RiskModerate -> 1
      [] level = RiskHigh -> 2 [] level = RiskVeryHigh -> 3

\* h is the largest absolute value of eta (eta holds no NaN).
IsMaxAbsOf(h, eta) ==
    /\ \E i \in DOMAIN eta : FAbs(eta[i]) = h
    /\ \A i \in DOMAIN eta : FLe(FAbs(eta[i]), h)

\* C2: calculate_tsunami_risk gives every profile exactly one of the four
\* levels, by the ladder on maxHeight = max(|profile|) with inclusive lower
\* bounds: < 0.5 Low, [0.5, 2.0) Moderate, [2.0, 5.0) High, >= 5.0 Very
\* High; and a profile that is no higher never gets a higher level.
C2_RiskLadder ==
    Assessed =>
        LET h == risk_ret.max_height
            level == risk_ret.risk_level
        IN  /\ (\A i \in DOMAIN passed.eta : ~IsNaN(passed.eta[i]))
                  => IsMaxAbsOf(h, passed.eta)
            /\ level \in {RiskLow, RiskModerate, RiskHigh, RiskVeryHigh}
            /\ FLt(h, Fin(5000)) => level = RiskLow
            /\ InBand(h, Fin(5000), Fin(20000)) => level = RiskModerate
            /\ InBand(h, Fin(20000), Fin(50000)) => level = RiskHigh
            /\ FGe(h, Fin(50000)) => level = RiskVeryHigh
            /\ \A g \in Heights :
                  FLe(FAbs(g), h) =>
                     Rank(calculate_tsunami_risk(wave_model, <<g>>, passed.params).risk_level)
                        <= Rank(level)

\* A profile whose largest height is exactly 0.5 m, rated Moderate.
C2_Witness ==
    /\ Assessed
    /\ risk_ret.max_height = Fin(5000)
    /\ risk_ret.risk_level = RiskModerate

\* The damage band of a height by the ladder 1.0 / 3.0 / 6.0.
BandOf(h) ==
    IF FLt(h, Fin(10000)) THEN DamageLight
    ELSE IF InBand(h, Fin(10000), Fin(30000)) THEN DamageSignificant
    ELSE IF InBand(h, Fin(30000), Fin(60000)) THEN DamageSevere
    ELSE DamageTotal

ProfileCalled == passed.op = "profile"
IsZero(a) == IsFin(a) /\ a.v = 0

\* C5: calculate_wave_profile raises nothing for out-of-domain inputs: for
\* wavelength = 0 and for depth <= 0, with any toggles, the call completes
\* and returns a (profile, analysis) pair.
C5_NeverRaises ==
    (ProfileCalled /\ (IsZero(passed.params.wavelength) \/ FLe(passed.params.depth, Zero)))
        => profile_ret.kind = "return"

\* C6: a key missing from include_effects is a disabled effect: the call
\* gives what it gives with the dict completed by False for every missing
\* key, and with the empty dict it gives the uncorrected base profile
\* amplitude * cos(k*x - omega*t).
C6_MissingKeyDisabled ==
    ProfileCalled =>
        LET p == passed.params
            ie == passed.include_effects
            completed == [e \in EffectNames |-> IF e \in DOMAIN ie THEN ie[e] ELSE FALSE]
        IN  /\ profile_ret = calculate_wave_profile(wave_model, p, passed.t, completed)
            /\ (ie = <<>> /\ Returned) =>
                  \A i \in DOMAIN wave_model.x :
                     profile_ret.eta[i] =
                        FMul(p.amplitude,
                             FCos(FSub(FMul(WaveNumber(p), wave_model.x[i]),
                                       FMul(AngularFrequency(wave_model, p), passed.t))))

\* The empty dict, where enabling all five effects gives another profile.
C6_Witness ==
    /\ Profiled
    /\ passed.include_effects = <<>>
    /\ profile_ret.eta #
          WaveProfile(wave_model, passed.params, passed.t, TotalDict(EffectNames))

\* In the domain: wavelength > 0 and depth > 0.
InDomain(p) == FLt(Zero, p.wavelength) /\ FLt(Zero, p.depth)

\* C8: with amplitude = 0, wavelength > 0, depth > 0 and wind disabled the
\* profile at t = 0 is zero at every grid point whatever the nonlinear,
\* dispersion, bottom_friction and coriolis toggles are; with wind enabled
\* it is the wind term alone.
C8_ZeroAmplitude ==
    (Profiled /\ IsZero(passed.params.amplitude) /\ InDomain(passed.params)
              /\ IsZero(passed.t)) =>
        IF "wind" \in EnabledIn(passed.include_effects)
        THEN profile_ret.eta = WindComponent(wave_model, passed.params.wind_speed,
                                             passed.params.wind_direction)
        ELSE \A i \in DOMAIN profile_ret.eta : FEq(profile_ret.eta[i], Zero)

\* Zero amplitude at t = 0 with the four other corrections enabled and
\* wind disabled.
C8_Witness ==
    /\ Profiled
    /\ IsZero(passed.params.amplitude) /\ InDomain(passed.params) /\ IsZero(passed.t)
    /\ EnabledIn(passed.include_effects) = EffectNames \ {"wind"}
    /\ \A i \in DOMAIN profile_ret.eta : FEq(profile_ret.eta[i], Zero)

\* C9: with wind_speed = 0, whatever wind_direction, t and the other four
\* toggles are, the profile with wind enabled is at every grid point the
\* profile with wind disabled.
C9_NoWindNoChange ==
    (Profiled /\ IsZero(passed.params.wind_speed)
              /\ "wind" \in EnabledIn(passed.include_effects)) =>
        profile_ret.eta =
           WaveProfile(wave_model, passed.params, passed.t,
                       TotalDict(EnabledIn(passed.include_effects) \ {"wind"}))

\* Wind enabled with wind_speed = 0 and wind_direction = 1 rad, on a wave
\* that is not flat, away from t = 0.
C9_Witness ==
    /\ Profiled
    /\ IsZero(passed.params.wind_speed)
    /\ passed.params.wind_direction = One
    /\ "wind" \in EnabledIn(passed.include_effects)
    /\ ~IsZero(passed.t)
    /\ IsFin(profile_ret.eta[1]) /\ ~IsZero(profile_ret.eta[1])

\* C10: in every analysis record 'momentum_flux' is 'energy', and the
\* 'energy' calculate_tsunami_risk computes again on the returned profile
\* is the same value.
C10_EnergyTwice ==
    /\ Returned => profile_ret.analysis.momentum_flux = profile_ret.analysis.energy
    /\ (Assessed /\ Returned /\ passed.eta = profile_ret.eta)
          => risk_ret.energy = profile_ret.analysis.energy

\* The risk of a returned profile whose energy is finite and not zero.
C10_Witness ==
    /\ Assessed /\ Returned /\ passed.eta = profile_ret.eta
    /\ IsFin(risk_ret.energy) /\ risk_ret.energy.v > 0
    /\ profile_ret.analysis.momentum_flux = risk_ret.energy

-----------------------------------------------------------------------------
(* Claims about sessions of calls (specification SpecSession) *)

\* The outcome of the last call.
LastRet == IF passed.op = "profile" THEN profile_ret ELSE risk_ret

\* C4: whatever calls are made on an instance, each call leaves the state
\* fixed at construction (x, dx, nx, domain_size, g, rho) as it was, leaves
\* the caller's params, toggle dict and input profile as they were passed,
\* and gives for the arguments of the first call of the session what that
\* first call gave, whichever calls came in between.
C4_PureCalls ==
    [][ /\ wave_model' = wave_model
        /\ wave_model' = TsunamiWaveModel(wave_model.domain_size, wave_model.nx)
        /\ params' = passed'.params
        /\ passed'.op = "profile" => include_effects' = passed'.include_effects
        /\ passed'.op = "risk" => eta_arg' = passed'.eta
        /\ passed' = first'.call => LastRet' = first'.ret
      ]_vars

\* The first evaluation of the session made again after a risk call and an
\* evaluation with other arguments.
C4_Witness ==
    /\ passed.op = "profile"
    /\ passed = first.call
    /\ risk_ret.kind = "return"
    /\ risk_ret.max_height # MaxAbs(profile_ret.eta)
    /\ eta_arg \notin SessionProfiles

\* Two spacings agree when they differ by no more than the rounding of the
\* grid samples can make them differ.
GridTolerance == Fin(MaxNx + 1)
Near(a, b) == FLe(FAbs(FSub(a, b)), GridTolerance)

\* C7: the grid has nx samples, the first 0 and the last domain_size,
\* evenly spaced (to the rounding of the sample values), and the spacing is
\* dx = domain_size / nx, the d given to np.fft.fftfreq.
C7_SpacingIsDx ==
    LET x == wave_model.x
    IN  /\ Len(x) = wave_model.nx
        /\ x[1] = Zero
        /\ x[Len(x)] = wave_model.domain_size
        /\ \A i, j \in 1..(Len(x) - 1) :
              Near(FSub(x[i + 1], x[i]), FSub(x[j + 1], x[j]))
        /\ \A i \in 1..(Len(x) - 1) : Near(FSub(x[i + 1], x[i]), wave_model.dx)
        /\ Returned =>
              profile_ret.analysis.energy_spectrum[1] =
                 FftFreq(wave_model.nx, wave_model.dx)

-----------------------------------------------------------------------------
(* The window: class TsunamiSimulator of src/main.py.                      *)
(*                                                                         *)
(* app is self: the attributes the simulation controls read and write,     *)
(* and with them the timer callbacks Tk holds for the window (timers).     *)
(* The callbacks run one at a time from the Tk main loop: no handler       *)
(* here enters the event loop (canvas.draw() draws and returns), so a      *)
(* handler is one step.  An exception that leaves a callback is reported   *)
(* by Tk (report_callback_exception) and the main loop goes on: what the   *)
(* handler assigned before the exception stays assigned, what comes after  *)
(* the raising line is not executed.                                       *)

StartLabel == "Bat dau"
StopLabel == "Dung"

\* The text of a spinbox that is not a number (empty, or half typed)
Unparsable == [k |-> "text"]

\* The identifier self.after(ms, f) returns.  Tk numbers them upwards and
\* never compares them: the code only hands one back to after_cancel, so
\* the model reuses the number of an identifier that is neither pending
\* nor held in self.after_id.
TimerId(n) == [kind |-> "after", n |-> n]

\* The scale of time_scale, and the step and the bound of _animate
TimeScaleFrom == Zero
TimeScaleTo == FromInt(10)
TimeStep == Fin(Scale \div 10)
TimeLimit == FromInt(10)

\* TsunamiSimulator(): the attributes after __init__, which ends with a
\* first _update_plot() at time_var = 0.0.  plotted_t is the t that the
\* callback that ran last handed to calculate_wave_profile (None when it
\* made no call).
TsunamiSimulator ==
    [running |-> FALSE,
     start_button |-> StartLabel,
     time_var |-> Zero,
     amp_var |-> One,
     wave_var |-> FromInt(100),
     depth_var |-> FromInt(1000),
     after_id |-> None,
     timers |-> {},
     plotted_t |-> Zero]

\* What a handler leaves: self, and whether an exception left the handler.
Done(self) == [self |-> self, raised |-> FALSE]
Raised(self) == [self |-> self, raised |-> TRUE]

\* DoubleVar.get() raises TclError when the text of the variable is not a
\* floating-point number.
DoubleVarGetRaises(var) == var = Unparsable

\* calculate_wave_profile(params, t, effects) raises: the divisions of
\* lines 47, 115 and 133, on the window's model (the profile itself is not
\* computed here).
ProfileRaises(model, p) ==
    \/ PyDivRaises(FMul(Two, PiF), p.wavelength)
    \/ analyze_wave_raises(model, model.x, WaveNumber(p))

\* _update_plot(): read the variables, compute the profile at
\* time_var.get(), draw.
update_plot(self) ==
    IF DoubleVarGetRaises(self.wave_var) THEN Raised(self)
    ELSE LET p == WaveParameters(self.amp_var, self.wave_var, self.depth_var)
             called == [self EXCEPT !.plotted_t = self.time_var]
         IN  IF ProfileRaises(wave_model, p) THEN Raised(called)
             ELSE Done(called)

\* self.after(50, self._animate): a new pending callback, its identifier.
FreshTimer(self) ==
    LET held == {t.n : t \in self.timers} \cup
                (IF self.after_id = None THEN {} ELSE {self.after_id.n})
    IN  TimerId(CHOOSE i \in 0..Cardinality(held) : i \notin held)
after(self) ==
    LET id == FreshTimer(self)
    IN  [self EXCEPT !.timers = @ \cup {id}, !.after_id = id]

\* self.after_cancel(id): the callback, when still pending, is dropped; an
\* identifier that has fired or was cancelled before is ignored.
after_cancel(self, id) == [self EXCEPT !.timers = @ \ {id}]

\* new_time = current_time + 0.1; if new_time > 10.0: new_time = 0.0
NextTime(current_time) ==
    LET new_time == FAdd(current_time, TimeStep)
    IN  IF FLt(TimeLimit, new_time) THEN Zero ELSE new_time

\* _animate(): one tick.  The next tick is scheduled on the last line, so
\* only when _update_plot() returned.
animate(self) ==
    IF self.running
    THEN LET timed == [self EXCEPT !.time_var = NextTime(self.time_var)]
             plotted == update_plot(timed)
         IN  IF plotted.raised THEN plotted ELSE Done(after(plotted.self))
    ELSE Done(self)

\* Mutant of toggle_simulation: stopping leaves the scheduled tick alone.
toggle_simulation_no_cancel(self) ==
    LET toggled == [self EXCEPT !.running = ~self.running]
    IN  IF toggled.running
        THEN animate([toggled EXCEPT !.start_button = StopLabel])
        ELSE Done([toggled EXCEPT !.start_button = StartLabel])

\* _toggle_simulation(): the start/stop button
toggle_simulation(self) ==
    LET toggled == [self EXCEPT !.running = ~self.running]
    IN  IF toggled.running
        THEN animate([toggled EXCEPT !.start_button = StopLabel])
        ELSE LET stopped == [toggled EXCEPT !.start_button = StartLabel]
             IN  Done(IF stopped.after_id # None
                      THEN after_cancel(stopped, stopped.after_id)
                      ELSE stopped)

\* Mutant of reset_simulation: the scheduled tick is not cancelled.
reset_simulation_no_cancel(self) ==
    update_plot([self EXCEPT !.running = FALSE, !.start_button = StartLabel,
                             !.time_var = Zero])

\* _reset_simulation(): the reset button
reset_simulation(self) ==
    LET stopped == [self EXCEPT !.running = FALSE, !.start_button = StartLabel]
        cancelled == IF stopped.after_id # None
                     THEN after_cancel(stopped, stopped.after_id)
                     ELSE stopped
    IN  update_plot([cancelled EXCEPT !.time_var = Zero])

\* What the user can do to the controls
TimeScaleValues == {TimeScaleFrom, Fin(99500), TimeScaleTo}
WaveScaleValues == {FromInt(10)}
WaveSpinTexts == {Zero, Unparsable}

\* app = TsunamiSimulator(): the window on the default model
GuiInit ==
    /\ wave_model = TsunamiWaveModel(FromInt(1000), 1000)
    /\ params = None
    /\ include_effects = <<>>
    /\ eta_arg = <<>>
    /\ passed = NoCall
    /\ profile_ret = None
    /\ risk_ret = None
    /\ first = NoCall
    /\ app = TsunamiSimulator
    /\ event = "none"

\* The window as a callback finds it
Entered(self) == [self EXCEPT !.plotted_t = None]

\* The main loop runs one callback: self is what the handler left.
Dispatch(name, left) ==
    /\ app' = left.self
    /\ event' = name
    /\ UNCHANGED <<wave_model, params, include_effects, eta_arg, passed,
                   profile_ret, risk_ret, first>>

\* A click on the start/stop button
ToggleSimulation == Dispatch("toggle", toggle_simulation(Entered(app)))

\* A click on the reset button
ResetSimulation == Dispatch("reset", reset_simulation(Entered(app)))

\* A pending timer fires: Tk forgets it and calls self._animate.
TimerFires ==
    \E id \in app.timers :
        Dispatch("tick", animate([Entered(app) EXCEPT !.timers = @ \ {id}]))

\* The time scale is dragged: Tk sets time_var, then the command runs.
MoveTimeScale ==
    \E v \in TimeScaleValues :
        Dispatch("time_scale", update_plot([Entered(app) EXCEPT !.time_var = v]))

\* The wavelength scale is dragged (10 .. 1000).
MoveWaveScale ==
    \E v \in WaveScaleValues :
        Dispatch("wave_scale", update_plot([Entered(app) EXCEPT !.wave_var = v]))

\* Text is typed into the wavelength spinbox: the variable follows the
\* text, and no command runs.
TypeWavelength ==
    \E text \in WaveSpinTexts :
        Dispatch("wave_spin", Done([Entered(app) EXCEPT !.wave_var = text]))

UserActs ==
    ToggleSimulation \/ ResetSimulation \/ MoveTimeScale \/ MoveWaveScale
        \/ TypeWavelength

GuiNext ==
    \/ ToggleSimulation
    \/ ResetSimulation
    \/ TimerFires
    \/ MoveTimeScale
    \/ MoveWaveScale
    \/ TypeWavelength

\* The main loop runs a timer callback that is due.
SpecGui == GuiInit /\ [][GuiNext]_vars /\ WF_vars(TimerFires)

-----------------------------------------------------------------------------
(* Claims on the window, under SpecGui *)

\* The simulation as the constructor leaves it, and what keeps the time
\* where it is: stopped, nothing scheduled, time 0.0.
ResetState ==
    /\ ~app.running
    /\ app.time_var = Zero
    /\ app.start_button = StartLabel
    /\ app.timers = {}
IdleAtZero == ~app.running /\ app.timers = {} /\ app.time_var = Zero

\* C11: whatever toggles, ticks, slider changes and resets came before,
\* _reset_simulation leaves running false, the time 0.0, the start label on
\* the button and no animation callback scheduled; and from such a state
\* the time stays 0.0 (with nothing scheduled) through every step that is
\* neither a click on start nor a move of the time slider.
C11_ResetRestores ==
    /\ [](event = "reset" => ResetState)
    /\ [][(IdleAtZero /\ event' \notin {"toggle", "time_scale"})
             => IdleAtZero']_vars

\* A reset after the animation had been started: the identifier of the tick
\* it scheduled is still in after_id, and the tick is gone.
C11_Witness ==
    /\ event = "reset"
    /\ app.after_id # None
    /\ ResetState

\* C12: at most one animation callback is pending, and none is pending
\* while running is false.
C12_OneChain ==
    /\ Cardinality(app.timers) <= 1
    /\ ~app.running => app.timers = {}

\* A start that follows an earlier run: the tick the click scheduled is
\* pending alone, and after_id held the identifier of an older tick.
C12_Witness ==
    /\ event = "toggle"
    /\ app.running
    /\ app.timers = {TimerId(1)}

\* t in [0.0, 10.0]
InTimeRange(t) == FLe(Zero, t) /\ FLe(t, TimeLimit)

\* The time of the window, and the t a callback hands to
\* calculate_wave_profile, are in [0.0, 10.0].
TimeInRange ==
    /\ InTimeRange(app.time_var)
    /\ app.plotted_t # None => InTimeRange(app.plotted_t)

\* A tick while running moves the time by 0.1, or to 0.0 when that would
\* pass 10.0; a tick while not running changes neither the time nor
\* running.
TickAdvances ==
    TimerFires =>
        IF app.running
        THEN LET advanced == FAdd(app.time_var, TimeStep)
             IN  app'.time_var = IF FLt(TimeLimit, advanced) THEN Zero
                                 ELSE advanced
        ELSE app'.time_var = app.time_var /\ app'.running = app.running

\* While running stays true and the user leaves the controls alone, the
\* time is 0.0 again and again.
WrapsAgain ==
    \/ []<>(~app.running \/ app.time_var = Zero)
    \/ []<><<UserActs>>_vars

\* C13: the simulation time, and the t passed to calculate_wave_profile,
\* stay within [0.0, 10.0]; each tick while running advances the time by
\* 0.1 and puts it back to 0.0 when the advanced value would exceed 10.0; a
\* tick while not running changes nothing; and while running remains true
\* the time wraps to 0.0 again and again.
C13_TimeWraps ==
    /\ []TimeInRange
    /\ [][TickAdvances]_vars
    /\ WrapsAgain

====
